---- MODULE Spec2Model ----
(***************************************************************************)
(* Model of server/filesystem/compress.go (pterodactyl-china/wings):       *)
(*   Filesystem.CompressFiles, Filesystem.SpaceAvailableForDecompression,  *)
(*   Filesystem.DecompressFile and ExtractNameFromArchive.                 *)
(*                                                                         *)
(* Strings are sequences of byte values 0..255.  Go indexes strings from   *)
(* 0, TLA+ sequences from 1: the Go expression str[i] is str[i + 1] here.  *)
(***************************************************************************)
EXTENDS Integers, Sequences, FiniteSets, TLC

VARIABLES
    file,       \* ExtractNameFromArchive: the archiver.File argument f
    nm,         \* ExtractNameFromArchive: pc, str, i, ifgbk and the returned name
    members,    \* the archive at `source`: the members archiver.Walk enumerates, in order
    arch,       \* what `source` is: a readable archive, an unknown format, missing, outside the root
    diskUsed,   \* the quota tracker's usage (fs.DiskUsage, moved by fs.addDisk)
    maxDisk,    \* fs.MaxDisk(); <= 0 is unlimited
    sp,         \* SpaceAvailableForDecompression: pc, size, dirSize, visited members, error
    now,        \* time.Now(), in seconds
    archives,   \* the archive-<time>.tar.gz files in the root directory: time |-> size
    call,       \* CompressFiles: each call's pc, arguments, locals and return value
    started,    \* how many CompressFiles calls have been made
    dir,        \* DecompressFile: the dir argument
    ignored,    \* the paths fs.IsIgnored returns an error for
    dec,        \* DecompressFile: pc, visited members, error
    written,    \* the files DecompressFile's writes have left: resolved path |-> data, mode, times
    ops,        \* the fs.Writefile, fs.Chmod and fs.Chtimes calls made, in order
    rootFiles   \* round trip: the files under the root that is compressed

nameVars == <<file, nm>>
archVars == <<members, arch>>
quotaVars == <<diskUsed, maxDisk>>
compVars == <<now, archives, call, started>>
decVars == <<dir, ignored, dec, written, ops>>
notNameVars == <<archVars, quotaVars, sp, compVars, decVars, rootFiles>>
notSpaceVars == <<nameVars, compVars, decVars, rootFiles>>
notCompVars == <<nameVars, archVars, sp, decVars, rootFiles>>
notDecVars == <<nameVars, quotaVars, sp, compVars, rootFiles>>
vars == <<file, nm, members, arch, diskUsed, maxDisk, sp, now, archives, call, started,
          dir, ignored, dec, written, ops, rootFiles>>

(***************************************************************************)
(* Bounds of the model.                                                    *)
(***************************************************************************)
MaxLen == 3         \* longest member name, in bytes, drawn for the name resolver
MaxMembers == 3     \* most members of an archive
MaxUsage == 3       \* largest initial usage drawn
MaxQuota == 4       \* largest maximum drawn
IntBits == 5        \* width the int64 arithmetic of the source is scaled to
NumCalls == 2       \* CompressFiles calls that can be in flight together
MaxCalls == 2       \* CompressFiles calls made in one run
MaxPaths == 2       \* most paths passed to one CompressFiles call
MaxTime == 1        \* last second of the clock
MaxArchive == 2     \* largest size of a created archive
MaxEntries == 2     \* most members of an archive that is decompressed

(***************************************************************************)
(* Byte constants of the legacy-encoding scan.                             *)
(***************************************************************************)
AsciiMax == 127         \* 0x7f
LeadMin == 129          \* 0x81
LeadMax == 254          \* 0xfe
ContMin == 64           \* 0x40
ContMax == 254          \* 0xfe
ContExcluded == 247     \* 0xf7
RuneError == 65533      \* U+FFFD, what the GBK decoder emits for an invalid byte

\* The byte values names are drawn from: both sides of every boundary the scan tests.
ScanBytes ==
    {ContMin - 1, ContMin, AsciiMax, AsciiMax + 1, LeadMin, ContExcluded, LeadMax, LeadMax + 1}

\* The sequences over S of length at most n.
RECURSIVE SeqsUpTo(_, _)
SeqsUpTo(S, n) ==
    IF n = 0 THEN {<<>>}
    ELSE LET shorter == SeqsUpTo(S, n - 1)
         IN  shorter \cup {Append(q, x) : q \in {t \in shorter : Len(t) = n - 1}, x \in S}

(***************************************************************************)
(* ExtractNameFromArchive.                                                 *)
(***************************************************************************)
\* The dynamic types f.Sys() is switched over; "nil" is the absent value.
KnownSys == {"zip.FileHeader", "zip2.FileHeader", "tar.Header", "gzip.Header", "gzip2.Header"}
SysKinds == {"nil"} \cup KnownSys \cup {"other.Named", "other.Unnamed"}

\* An archiver.File as the resolver sees it: name is f.Name(), sys the dynamic type of
\* f.Sys(), sysName the Name field of that value (unused when it has none).
MkFile(name, sys, sysName) == [name |-> name, sys |-> sys, sysName |-> sysName]

NameIdle == [pc |-> "call", str |-> <<>>, i |-> 0, ifgbk |-> FALSE, ret |-> <<>>]
NameReturned(s, name) == [s EXCEPT !.pc = "returned", !.ret = name]

\* golang.org/x/text simplifiedchinese.GBK decoder on the two bytes at a lead byte:
\* a valid pair is one rune, written here as the number 256 * lead + cont (> 255, so
\* never a byte of the input); the trail 0x7f is invalid, the lead alone becomes
\* U+FFFD and the 0x7f is decoded again as ASCII.
GBKPair(lead, cont) ==
    IF cont = AsciiMax THEN <<RuneError, cont>> ELSE <<256 * lead + cont>>

RECURSIVE GBKDecode(_)
GBKDecode(s) ==
    IF s = <<>> THEN <<>>
    ELSE IF s[1] <= AsciiMax THEN <<s[1]>> \o GBKDecode(Tail(s))
    ELSE IF Len(s) = 1 \/ s[1] = AsciiMax + 1 \/ s[1] > LeadMax
         THEN <<RuneError>> \o GBKDecode(Tail(s))
    ELSE IF s[2] < ContMin \/ s[2] > ContMax
         THEN <<RuneError>> \o GBKDecode(Tail(s))
    ELSE GBKPair(s[1], s[2]) \o GBKDecode(Tail(Tail(s)))

\* ExtractNameEntry without the lookup of a Name field by reflection: metadata of an
\* unknown type gives the library-reported name.
ExtractNameEntryLibraryName(f) ==
    IF f.sys = "nil" THEN NameReturned(NameIdle, f.name)
    ELSE IF f.sys \in KnownSys
         THEN [pc |-> "loop", str |-> f.sysName, i |-> 0, ifgbk |-> FALSE, ret |-> <<>>]
    ELSE NameReturned(NameIdle, f.name)

\* Lines 173-213: the choice of the name source, up to the start of the scan.
ExtractNameEntry(f) ==
    IF f.sys = "nil" THEN NameReturned(NameIdle, f.name)
    ELSE IF f.sys \in KnownSys
         THEN [pc |-> "loop", str |-> f.sysName, i |-> 0, ifgbk |-> FALSE, ret |-> <<>>]
    ELSE IF f.sys = "other.Named" THEN NameReturned(NameIdle, f.sysName)
    ELSE NameReturned(NameIdle, f.name)

\* The test of lines 221-225 on str[i] and str[i + 1], str[i] > 0x7f.  Go evaluates
\* && left to right: str[i + 1] is read only when str[i] is a lead byte, and reading
\* it at an index >= len(str) panics.
PairTest(str, i) ==
    IF ~(str[i + 1] >= LeadMin /\ str[i + 1] <= LeadMax) THEN "no"
    ELSE IF i + 1 >= Len(str) THEN "panic"
    ELSE IF str[i + 2] >= ContMin /\ str[i + 2] <= ContMax /\ str[i + 2] # ContExcluded
         THEN "yes"
    ELSE "no"

\* Lines 214-232: one evaluation of the loop condition and, when it holds, of the body.
ScanIteration(s) ==
    IF ~(s.i < Len(s.str)) THEN [s EXCEPT !.pc = "convert"]
    ELSE IF s.str[s.i + 1] <= AsciiMax THEN [s EXCEPT !.i = @ + 1, !.ifgbk = TRUE]
    ELSE CASE PairTest(s.str, s.i) = "yes" -> [s EXCEPT !.i = @ + 2, !.ifgbk = TRUE]
           [] PairTest(s.str, s.i) = "panic" -> [s EXCEPT !.pc = "panic"]
           [] OTHER -> [s EXCEPT !.ifgbk = FALSE]

\* Lines 234-239.
Convert(s) ==
    NameReturned(s, IF s.ifgbk THEN GBKDecode(s.str) ELSE s.str)

\* f := the File of a member; the call starts.
NameCall ==
    /\ nm.pc = "call"
    /\ nm' = ExtractNameEntry(file)
    /\ UNCHANGED <<file, notNameVars>>

NameScan ==
    /\ nm.pc = "loop"
    /\ nm' = ScanIteration(nm)
    /\ UNCHANGED <<file, notNameVars>>

NameConvert ==
    /\ nm.pc = "convert"
    /\ nm' = Convert(nm)
    /\ UNCHANGED <<file, notNameVars>>

LibNames == {<<97>>, <<LeadMin, ContMin>>}

NameInit ==
    /\ file \in {MkFile(n, k, s) : n \in LibNames, k \in SysKinds,
                                   s \in SeqsUpTo(ScanBytes, MaxLen)}
    /\ nm = NameIdle

(***************************************************************************)
(* Signed integers of the source (int64), scaled to IntBits bits: addition *)
(* wraps around as Go's does.                                              *)
(***************************************************************************)
IntModulus == 2 ^ IntBits
MaxInt == 2 ^ (IntBits - 1) - 1
Wrap(x) == ((x + MaxInt + 1) % IntModulus) - (MaxInt + 1)

(***************************************************************************)
(* The archive and the quota tracker.                                      *)
(***************************************************************************)
\* One member as archiver.Walk hands it to the visitor: f.IsDir(), f.Size(), the name
\* and f.Sys() (f), f.Mode(), f.ModTime() and the content read from f.
MkMember(isDir, size, f, mode, mtime, data) ==
    [isDir |-> isDir, size |-> size, f |-> f, mode |-> mode, mtime |-> mtime, data |-> data]

NoFile == MkFile(<<>>, "nil", <<>>)
ArchiveIdle == members = <<>> /\ arch = "ok"
QuotaIdle == diskUsed = 0 /\ maxDisk = 0

(***************************************************************************)
(* SpaceAvailableForDecompression.                                         *)
(***************************************************************************)
SpaceIdle == [pc |-> "idle", size |-> 0, dirSize |-> 0, visited |-> 0, err |-> "nil"]

\* SpaceEnter that resolves the archive's path before it looks at the maximum.
SpaceEnterResolveFirst(s, max, used, a) ==
    IF a = "outside" THEN [s EXCEPT !.pc = "done", !.err = "ErrCodePathResolution"]
    ELSE IF max <= 0 THEN [s EXCEPT !.pc = "done", !.err = "nil"]
    ELSE [s EXCEPT !.pc = "walk", !.dirSize = used, !.size = 0]

\* Lines 81-94: the short-circuit, fs.SafePath(filepath.Join(dir, file)), fs.DiskUsage.
SpaceEnter(s, max, used, a) ==
    IF max <= 0 THEN [s EXCEPT !.pc = "done", !.err = "nil"]
    ELSE IF a = "outside" THEN [s EXCEPT !.pc = "done", !.err = "ErrCodePathResolution"]
    ELSE [s EXCEPT !.pc = "walk", !.dirSize = used, !.size = 0]

\* Lines 96-101: the visitor on one member; atomic.AddInt64 returns the new total.
\* archiver.Walk stops at the first error its visitor returns and returns it.
VisitSize(s, m, max) ==
    LET total == Wrap(s.size + m.size)
    IN  IF Wrap(total + s.dirSize) > max
        THEN [s EXCEPT !.size = total, !.visited = @ + 1,
                       !.pc = "walked", !.err = "ErrCodeDiskSpace"]
        ELSE [s EXCEPT !.size = total, !.visited = @ + 1]

\* What archiver.Walk returns when it visited every member, or could not read source.
WalkEnd(a) ==
    CASE a = "ok" -> "nil"
      [] a = "unknown" -> "format unrecognized"
      [] OTHER -> "ENOENT"

\* Lines 102-108.
SpaceReturn(s) ==
    [s EXCEPT !.pc = "done",
              !.err = IF @ = "format unrecognized" THEN "ErrCodeUnknownArchive" ELSE @]

SpaceStart ==
    /\ sp.pc = "idle"
    /\ sp' = SpaceEnter(sp, maxDisk, diskUsed, arch)
    /\ UNCHANGED <<archVars, quotaVars, notSpaceVars>>

SpaceVisit ==
    /\ sp.pc = "walk"
    /\ arch = "ok"
    /\ sp.visited < Len(members)
    /\ sp' = VisitSize(sp, members[sp.visited + 1], maxDisk)
    /\ UNCHANGED <<archVars, quotaVars, notSpaceVars>>

SpaceWalkEnd ==
    /\ sp.pc = "walk"
    /\ arch # "ok" \/ sp.visited = Len(members)
    /\ sp' = [sp EXCEPT !.pc = "walked", !.err = WalkEnd(arch)]
    /\ UNCHANGED <<archVars, quotaVars, notSpaceVars>>

SpaceFinish ==
    /\ sp.pc = "walked"
    /\ sp' = SpaceReturn(sp)
    /\ UNCHANGED <<archVars, quotaVars, notSpaceVars>>

\* Member sizes drawn: small ones and the largest value of the integer type.
SizeValues == {0, 1, 2, MaxInt}
SpaceMembers ==
    {MkMember(d, n, NoFile, 0, 0, 0) : d \in BOOLEAN, n \in SizeValues} \ 
        {MkMember(TRUE, n, NoFile, 0, 0, 0) : n \in SizeValues \ {0, 1}}

SpaceInit ==
    /\ arch \in {"ok", "unknown", "missing", "outside"}
    /\ members \in IF arch = "ok" THEN SeqsUpTo(SpaceMembers, MaxMembers) ELSE {<<>>}
    /\ diskUsed \in 0..MaxUsage
    /\ maxDisk \in -1..MaxQuota
    /\ sp = SpaceIdle

(***************************************************************************)
(* CompressFiles.                                                          *)
(***************************************************************************)
Calls == 1..NumCalls
\* What fs.SafePath makes of one input path.
PathKinds == {"ok", "missing", "outside"}

CallIdle ==
    [pc |-> "idle", dirOk |-> TRUE, paths |-> <<>>, pending |-> {}, verr |-> "nil",
     d |-> 0, fsize |-> 0, ret |-> "none",
     \* history: the state at the call, and what the call has done so far
     usage0 |-> 0, archives0 |-> <<>>, created |-> FALSE, removed |-> FALSE,
     checked |-> FALSE, adds |-> 0]

InFlight(c) == call[c].pc \notin {"idle", "done"}

\* return nil, err
ReturnError(r, err) == [r EXCEPT !.pc = "done", !.ret = err]

\* os.Remove(d), its error dropped.
Remove(files, d) == [t \in DOMAIN files \ {d} |-> files[t]]
\* The file at d after a writer has left n bytes in it.
WriteArchive(files, d, n) == [t \in DOMAIN files \cup {d} |-> IF t = d THEN n ELSE files[t]]

\* fs.SafePath on one path: the resolver's error for a path it refuses.
SafePathError(kind) ==
    CASE kind = "ok" -> "nil"
      [] kind = "missing" -> "ENOENT"
      [] OTHER -> "ErrCodePathResolution"

\* fs.HasSpaceFor(size): nil when the quota is off or the size fits.
HasSpaceFor(size) ==
    IF maxDisk > 0 /\ diskUsed + size > maxDisk THEN "ErrCodeDiskSpace" ELSE "nil"

\* Lines 34-43: the call, fs.SafePath(dir), the join of every path with the root.
CStart(c, dirOk, paths) ==
    /\ call[c].pc = "idle"
    /\ \A o \in Calls : o < c => InFlight(o)
    /\ started < MaxCalls
    /\ started' = started + 1
    /\ call' = [call EXCEPT ![c] =
          LET r == [@ EXCEPT !.dirOk = dirOk, !.paths = paths,
                             !.usage0 = diskUsed, !.archives0 = archives]
          IN  IF dirOk THEN [r EXCEPT !.pc = "validate", !.pending = 1..Len(paths)]
              ELSE ReturnError(r, "ErrCodePathResolution")]
    /\ UNCHANGED <<now, archives, quotaVars, notCompVars>>

\* fs.ParallelSafePath (line 45): one worker finishes the check of path k; the group
\* keeps the first error reported to it.
CValidate(c, k) ==
    /\ call[c].pc = "validate"
    /\ k \in call[c].pending
    /\ call' = [call EXCEPT ![c].pending = @ \ {k},
                            ![c].verr = IF @ = "nil" THEN SafePathError(call[c].paths[k]) ELSE @]
    /\ UNCHANGED <<now, archives, started, quotaVars, notCompVars>>

\* CValidated that goes on to write the archive whatever the validation said.
CValidatedIgnoringError(c) ==
    /\ call[c].pc = "validate"
    /\ call[c].pending = {}
    /\ call' = [call EXCEPT ![c] = [@ EXCEPT !.pc = "create", !.d = now]]
    /\ UNCHANGED <<now, archives, started, quotaVars, notCompVars>>

\* Lines 45-54: every worker is done; the error return, or the output path from the clock.
CValidated(c) ==
    /\ call[c].pc = "validate"
    /\ call[c].pending = {}
    /\ call' = [call EXCEPT ![c] =
          IF @.verr # "nil" THEN ReturnError(@, @.verr)
          ELSE [@ EXCEPT !.pc = "create", !.d = now]]
    /\ UNCHANGED <<now, archives, started, quotaVars, notCompVars>>

\* Lines 56-58: a.Create(d).  It fails before the file exists, fails after having
\* written n bytes of it, or leaves the whole archive of n bytes.
CCreate(c, outcome, n) ==
    /\ call[c].pc = "create"
    /\ LET d == call[c].d
       IN  CASE outcome = "no file" ->
                  /\ call' = [call EXCEPT ![c] = ReturnError(@, "create failed")]
                  /\ UNCHANGED archives
             [] outcome = "partial" ->
                  /\ call' = [call EXCEPT ![c] =
                                 ReturnError([@ EXCEPT !.created = TRUE], "create failed")]
                  /\ archives' = WriteArchive(archives, d, n)
             [] OTHER ->
                  /\ call' = [call EXCEPT ![c] = [@ EXCEPT !.pc = "stat", !.created = TRUE]]
                  /\ archives' = WriteArchive(archives, d, n)
    /\ UNCHANGED <<now, started, quotaVars, notCompVars>>

\* Lines 60-64: os.Stat(d); it fails when d is gone, and may fail on a file that is there.
CStat(c, fails) ==
    /\ call[c].pc = "stat"
    /\ LET d == call[c].d
       IN  IF fails \/ d \notin DOMAIN archives
           THEN /\ archives' = Remove(archives, d)
                /\ call' = [call EXCEPT ![c] = ReturnError([@ EXCEPT !.removed = TRUE], "stat failed")]
           ELSE /\ call' = [call EXCEPT ![c] = [@ EXCEPT !.pc = "check", !.fsize = archives[d]]]
                /\ UNCHANGED archives
    /\ UNCHANGED <<now, started, quotaVars, notCompVars>>

\* CCheck that returns the quota error and leaves the archive where it is.
CCheckNoRemove(c) ==
    /\ call[c].pc = "check"
    /\ call' = [call EXCEPT ![c] =
          IF HasSpaceFor(@.fsize) # "nil" THEN ReturnError(@, HasSpaceFor(@.fsize))
          ELSE [@ EXCEPT !.pc = "add", !.checked = TRUE]]
    /\ UNCHANGED <<now, archives, started, quotaVars, notCompVars>>

\* Lines 66-69: fs.HasSpaceFor(f.Size()).
CCheck(c) ==
    /\ call[c].pc = "check"
    /\ IF HasSpaceFor(call[c].fsize) # "nil"
       THEN /\ archives' = Remove(archives, call[c].d)
            /\ call' = [call EXCEPT ![c] =
                           ReturnError([@ EXCEPT !.removed = TRUE], HasSpaceFor(@.fsize))]
       ELSE /\ call' = [call EXCEPT ![c] = [@ EXCEPT !.pc = "add", !.checked = TRUE]]
            /\ UNCHANGED archives
    /\ UNCHANGED <<now, started, quotaVars, notCompVars>>

\* CAdd with the archive's size recorded twice.
CAddTwice(c) ==
    /\ call[c].pc = "add"
    /\ diskUsed' = diskUsed + call[c].fsize + call[c].fsize
    /\ call' = [call EXCEPT ![c] = [@ EXCEPT !.pc = "done", !.ret = "ok", !.adds = @ + 2]]
    /\ UNCHANGED <<now, archives, started, maxDisk, notCompVars>>

\* Lines 71-73: fs.addDisk(f.Size()); return f, nil.
CAdd(c) ==
    /\ call[c].pc = "add"
    /\ diskUsed' = diskUsed + call[c].fsize
    /\ call' = [call EXCEPT ![c] = [@ EXCEPT !.pc = "done", !.ret = "ok", !.adds = @ + 1]]
    /\ UNCHANGED <<now, archives, started, maxDisk, notCompVars>>

\* The caller has the call's result; the slot is free for another call.
CReturn(c) ==
    /\ call[c].pc = "done"
    /\ call' = [call EXCEPT ![c] = CallIdle]
    /\ UNCHANGED <<now, archives, started, quotaVars, notCompVars>>

\* A second passes.
Tick ==
    /\ now < MaxTime
    /\ now' = now + 1
    /\ UNCHANGED <<archives, call, started, quotaVars, notCompVars>>

CompIdle == now = 0 /\ archives = <<>> /\ call = [c \in Calls |-> CallIdle] /\ started = 0

CompInit ==
    /\ CompIdle
    /\ diskUsed \in 0..MaxUsage
    /\ maxDisk \in 0..MaxQuota

(***************************************************************************)
(* Paths: filepath.Join and the sandbox path resolver.                     *)
(***************************************************************************)
Slash == 47     \* '/'
Dot == 46       \* '.'

\* The elements of a path between its separators.
RECURSIVE Split(_, _, _)
Split(s, cur, acc) ==
    IF s = <<>> THEN Append(acc, cur)
    ELSE IF s[1] = Slash THEN Split(Tail(s), <<>>, Append(acc, cur))
    ELSE Split(Tail(s), Append(cur, s[1]), acc)

\* filepath.Clean: "" and "." elements dropped, ".." removes the element before it;
\* a rooted path drops a ".." at its root, a relative one keeps it (up counts them).
RECURSIVE CleanFrom(_, _, _, _)
CleanFrom(segs, rooted, up, out) ==
    IF segs = <<>> THEN [rooted |-> rooted, up |-> up, segs |-> out]
    ELSE IF segs[1] = <<>> \/ segs[1] = <<Dot>> THEN CleanFrom(Tail(segs), rooted, up, out)
    ELSE IF segs[1] = <<Dot, Dot>>
         THEN IF out # <<>> THEN CleanFrom(Tail(segs), rooted, up, SubSeq(out, 1, Len(out) - 1))
              ELSE IF rooted THEN CleanFrom(Tail(segs), rooted, up, out)
              ELSE CleanFrom(Tail(segs), rooted, up + 1, out)
    ELSE CleanFrom(Tail(segs), rooted, up, Append(out, segs[1]))

Clean(s) == CleanFrom(Split(s, <<>>, <<>>), s # <<>> /\ s[1] = Slash, 0, <<>>)

\* filepath.Join(a, b): the non-empty elements joined by a separator, cleaned.
JoinPath(a, b) ==
    Clean(IF a = <<>> THEN b ELSE IF b = <<>> THEN a ELSE a \o <<Slash>> \o b)

\* The sandbox root, /d/r.
RootPath == << <<100>>, <<114>> >>

\* fs.SafePath(p): p joined to the root and cleaned; ok when the result is the root
\* or under it.
SafePath(p) ==
    LET keep == IF p.up >= Len(RootPath) THEN 0 ELSE Len(RootPath) - p.up
        abs == SubSeq(RootPath, 1, keep) \o p.segs
    IN  [ok |-> Len(abs) >= Len(RootPath) /\ SubSeq(abs, 1, Len(RootPath)) = RootPath,
         path |-> abs]

(***************************************************************************)
(* DecompressFile.                                                         *)
(***************************************************************************)
\* ExtractNameFromArchive(f) as DecompressFile sees it: the name it returns, a panic,
\* or a call that never returns ("spin": an iteration of the scan that changes nothing).
RECURSIVE RunScan(_)
RunScan(s) ==
    IF s.pc = "loop"
    THEN IF ScanIteration(s) = s THEN [s EXCEPT !.pc = "spin"] ELSE RunScan(ScanIteration(s))
    ELSE IF s.pc = "convert" THEN Convert(s)
    ELSE s

ExtractNameFromArchive(f) == RunScan(ExtractNameEntry(f))

DecIdle == [pc |-> "idle", visited |-> 0, err |-> "nil"]

\* fs.IsIgnored(p): an error for a path that is to be skipped.
IsIgnored(p) == p \in ignored

\* One call of the raw file writer: on member k's path p, and whether it succeeded.
Op(op, k, p, ok) == [op |-> op, member |-> k, path |-> p, ok |-> ok]

\* The files after fs.Writefile, fs.Chmod, fs.Chtimes on the resolved path q.
Writefile(files, q, data) ==
    [t \in DOMAIN files \cup {q} |->
        IF t = q THEN [data |-> data, mode |-> 0, atime |-> 0, mtime |-> 0] ELSE files[t]]
Chmod(files, q, mode) == [files EXCEPT ![q].mode = mode]
Chtimes(files, q, atime, mtime) == [files EXCEPT ![q].atime = atime, ![q].mtime = mtime]

\* Lines 117-124: fs.SafePath(filepath.Join(dir, file)) and os.Stat(source).
DStart ==
    /\ dec.pc = "idle"
    /\ dec' = CASE arch = "outside" -> [dec EXCEPT !.pc = "done", !.err = "ErrCodePathResolution"]
                [] arch = "missing" -> [dec EXCEPT !.pc = "done", !.err = "ENOENT"]
                [] OTHER -> [dec EXCEPT !.pc = "walk"]
    /\ UNCHANGED <<dir, ignored, written, ops, archVars, notDecVars>>

\* ExtractMember that drops the error of fs.Chmod and goes on to fs.Chtimes.
ExtractMemberIgnoringChmodError(k, m, p, q, fault) ==
    LET abort(e) == [dec EXCEPT !.visited = k, !.pc = "walked", !.err = e]
    IN  IF ~q.ok \/ fault = "Writefile"
        THEN /\ dec' = abort(IF ~q.ok THEN "ErrCodePathResolution" ELSE "write failed")
             /\ ops' = Append(ops, Op("Writefile", k, p, FALSE))
             /\ UNCHANGED written
        ELSE /\ dec' = IF fault = "Chtimes" THEN abort("chtimes failed")
                       ELSE [dec EXCEPT !.visited = k]
             /\ ops' = ops \o <<Op("Writefile", k, p, TRUE), Op("Chmod", k, p, fault # "Chmod"),
                               Op("Chtimes", k, p, fault # "Chtimes")>>
             /\ written' =
                  LET w == Writefile(written, q.path, m.data)
                      c == IF fault = "Chmod" THEN w ELSE Chmod(w, q.path, m.mode)
                  IN  IF fault = "Chtimes" THEN c ELSE Chtimes(c, q.path, m.mtime, m.mtime)

\* Lines 138-149: fs.Writefile, fs.Chmod, fs.Chtimes on the member's path p.  fault
\* names the step an I/O error hits, if any; fs.Writefile resolves p for containment
\* first (q).  Every error is returned to archiver.Walk, which stops.
ExtractMember(k, m, p, q, fault) ==
    LET abort(e) == [dec EXCEPT !.visited = k, !.pc = "walked", !.err = e]
    IN  IF ~q.ok
        THEN /\ dec' = abort("ErrCodePathResolution")
             /\ ops' = Append(ops, Op("Writefile", k, p, FALSE))
             /\ UNCHANGED written
        ELSE IF fault = "Writefile"
        THEN /\ dec' = abort("write failed")
             /\ ops' = Append(ops, Op("Writefile", k, p, FALSE))
             /\ UNCHANGED written
        ELSE IF fault = "Chmod"
        THEN /\ dec' = abort("chmod failed")
             /\ ops' = ops \o <<Op("Writefile", k, p, TRUE), Op("Chmod", k, p, FALSE)>>
             /\ written' = Writefile(written, q.path, m.data)
        ELSE IF fault = "Chtimes"
        THEN /\ dec' = abort("chtimes failed")
             /\ ops' = ops \o <<Op("Writefile", k, p, TRUE), Op("Chmod", k, p, TRUE),
                               Op("Chtimes", k, p, FALSE)>>
             /\ written' = Chmod(Writefile(written, q.path, m.data), q.path, m.mode)
        ELSE /\ dec' = [dec EXCEPT !.visited = k]
             /\ ops' = ops \o <<Op("Writefile", k, p, TRUE), Op("Chmod", k, p, TRUE),
                               Op("Chtimes", k, p, TRUE)>>
             /\ written' = Chtimes(Chmod(Writefile(written, q.path, m.data),
                                         q.path, m.mode), q.path, m.mtime, m.mtime)

\* VisitMember that returns the error of fs.IsIgnored to archiver.Walk.
VisitMemberIgnoredFails(k, m, fault) ==
    LET name == ExtractNameFromArchive(m.f)
        p == JoinPath(dir, name.ret)
    IN  IF name.pc # "returned"
        THEN dec' = [dec EXCEPT !.pc = name.pc] /\ UNCHANGED <<written, ops>>
        ELSE IF IsIgnored(p)
        THEN /\ dec' = [dec EXCEPT !.visited = k, !.pc = "walked", !.err = "ErrCodeDenylistFile"]
             /\ UNCHANGED <<written, ops>>
        ELSE ExtractMember(k, m, p, SafePath(p), fault)

\* Lines 130-149: the visitor on the k-th member m, a non-directory: the name, the
\* path, the skip of an ignored path, then the three steps of ExtractMember.
VisitMember(k, m, fault) ==
    LET name == ExtractNameFromArchive(m.f)
        p == JoinPath(dir, name.ret)
    IN  IF name.pc # "returned"
        THEN dec' = [dec EXCEPT !.pc = name.pc] /\ UNCHANGED <<written, ops>>
        ELSE IF IsIgnored(p)
        THEN dec' = [dec EXCEPT !.visited = k] /\ UNCHANGED <<written, ops>>
        ELSE ExtractMember(k, m, p, SafePath(p), fault)

\* DVisit that hands directory members to the visitor's steps as well.
DVisitDirectories(fault) ==
    /\ dec.pc = "walk"
    /\ arch = "ok"
    /\ dec.visited < Len(members)
    /\ VisitMember(dec.visited + 1, members[dec.visited + 1], fault)
    /\ UNCHANGED <<dir, ignored, archVars, notDecVars>>

\* Lines 129-150: archiver.Walk hands the next member to the visitor.
DVisit(fault) ==
    /\ dec.pc = "walk"
    /\ arch = "ok"
    /\ dec.visited < Len(members)
    /\ LET k == dec.visited + 1
       IN  IF members[k].isDir
           THEN dec' = [dec EXCEPT !.visited = k] /\ UNCHANGED <<written, ops>>
           ELSE VisitMember(k, members[k], fault)
    /\ UNCHANGED <<dir, ignored, archVars, notDecVars>>

\* archiver.Walk returns: every member was visited, or source is no archive it knows.
DWalkEnd ==
    /\ dec.pc = "walk"
    /\ arch # "ok" \/ dec.visited = Len(members)
    /\ dec' = [dec EXCEPT !.pc = "walked", !.err = WalkEnd(arch)]
    /\ UNCHANGED <<dir, ignored, written, ops, archVars, notDecVars>>

\* DFinish that reports every error of the walk as an unknown archive.
DFinishAllUnknown ==
    /\ dec.pc = "walked"
    /\ dec' = [dec EXCEPT !.pc = "done",
                          !.err = IF @ # "nil" THEN "ErrCodeUnknownArchive" ELSE @]
    /\ UNCHANGED <<dir, ignored, written, ops, archVars, notDecVars>>

\* Lines 151-157.
DFinish ==
    /\ dec.pc = "walked"
    /\ dec' = [dec EXCEPT !.pc = "done",
                          !.err = IF @ = "format unrecognized" THEN "ErrCodeUnknownArchive" ELSE @]
    /\ UNCHANGED <<dir, ignored, written, ops, archVars, notDecVars>>

DecIdleInit == dir = <<>> /\ ignored = {} /\ dec = DecIdle /\ written = <<>> /\ ops = <<>>

\* Member names drawn: a, s/b, ../x, ../../x, the UTF-8 for e-acute, a lone lead
\* byte, a byte that is neither ASCII nor a lead byte.
NameA == <<97>>
NameSB == <<115, Slash, 98>>
NameUpX == <<Dot, Dot, Slash, 120>>
NameUpUpX == <<Dot, Dot, Slash, Dot, Dot, Slash, 120>>
NameEAcute == <<195, 169>>
NameLead == <<LeadMin>>
NameNeither == <<AsciiMax + 1>>

TarFile(n) == MkFile(n, "tar.Header", n)
DecMembers ==
    {MkMember(FALSE, 1, TarFile(n), 2, 3, 1) :
        n \in {NameA, NameSB, NameUpX, NameUpUpX, NameEAcute, NameLead, NameNeither}}
    \cup {MkMember(TRUE, 0, TarFile(n), 2, 3, 0) : n \in {<<115>>, NameUpUpX}}
    \cup {MkMember(FALSE, 1, MkFile(NameUpUpX, "nil", <<>>), 2, 3, 1)}

DecInit ==
    /\ arch \in {"ok", "unknown", "missing", "outside"}
    /\ members \in IF arch = "ok" THEN SeqsUpTo(DecMembers, MaxEntries) ELSE {<<>>}
    /\ dir \in {<<>>, <<115>>}
    /\ ignored \in {{}} \cup {{JoinPath(dir, n)} : n \in {NameA, NameUpUpX}}
    /\ dec = DecIdle
    /\ written = <<>>
    /\ ops = <<>>

(***************************************************************************)
(* Round trip: CompressFiles on a root, DecompressFile of its archive into *)
(* an empty root.                                                          *)
(***************************************************************************)
NameCJK == <<228, 184, 173>>    \* the UTF-8 for U+4E2D

FileOf(name, n) == [name |-> name, data |-> n, mode |-> n, mtime |-> n]
RoundTripFiles == {FileOf(NameA, 1), FileOf(NameSB, 2), FileOf(NameEAcute, 3), FileOf(NameCJK, 4)}

RECURSIVE SeqOf(_)
SeqOf(S) == IF S = {} THEN <<>>
            ELSE LET x == CHOOSE y \in S : TRUE IN <<x>> \o SeqOf(S \ {x})

\* Archive.Create: one tar member per file, named by its path relative to the root,
\* with the file's mode, modification time and content.
ArchiveOf(fs) ==
    LET q == SeqOf(fs)
    IN  [k \in 1..Len(q) |->
            MkMember(FALSE, 1, TarFile(q[k].name), q[k].mode, q[k].mtime, q[k].data)]

\* CompressFiles has returned its archive; the caller hands that file to DecompressFile.
RoundTripSource(c) ==
    /\ call[c].pc = "done" /\ call[c].ret = "ok"
    /\ call[c].d \in DOMAIN archives
    /\ arch = "missing"
    /\ arch' = "ok"
    /\ members' = ArchiveOf(rootFiles)
    /\ UNCHANGED <<nameVars, quotaVars, sp, compVars, decVars, rootFiles>>

RoundTripInit ==
    /\ rootFiles \in SUBSET RoundTripFiles
    /\ arch = "missing" /\ members = <<>>
    /\ diskUsed = 0 /\ maxDisk \in {0, MaxQuota}
    /\ CompIdle
    /\ DecIdleInit

(***************************************************************************)
(* Specifications.                                                         *)
(***************************************************************************)
NameIdleInit == file = NoFile /\ nm = NameIdle

InitName == NameInit /\ ArchiveIdle /\ QuotaIdle /\ sp = SpaceIdle /\ CompIdle /\ DecIdleInit /\ rootFiles = {}
NextName == NameCall \/ NameScan \/ NameConvert
SpecName == InitName /\ [][NextName]_vars
\* A call that has started keeps executing: the goroutine running it is scheduled.
FairSpecName == SpecName /\ WF_vars(NextName)

InitSpace == SpaceInit /\ NameIdleInit /\ CompIdle /\ DecIdleInit /\ rootFiles = {}
NextSpace == SpaceStart \/ SpaceVisit \/ SpaceWalkEnd \/ SpaceFinish
SpecSpace == InitSpace /\ [][NextSpace]_vars

InitDecompress == DecInit /\ NameIdleInit /\ QuotaIdle /\ sp = SpaceIdle /\ CompIdle /\ rootFiles = {}
NextDecompress ==
    \/ DStart
    \/ \E fault \in {"none", "Writefile", "Chmod", "Chtimes"} : DVisit(fault)
    \/ DWalkEnd
    \/ DFinish
SpecDecompress == InitDecompress /\ [][NextDecompress]_vars

\* One CompressFiles call on every file of the root, then DecompressFile of the archive
\* it returned, with no I/O error while extracting.
InitRoundTrip == RoundTripInit /\ NameIdleInit /\ sp = SpaceIdle
NextRoundTrip ==
    \/ \E c \in Calls : started = 0 /\ CStart(c, TRUE, [k \in 1..Cardinality(rootFiles) |-> "ok"])
    \/ \E c \in Calls, k \in 1..Cardinality(RoundTripFiles) : CValidate(c, k)
    \/ \E c \in Calls : CValidated(c)
    \/ \E c \in Calls, outcome \in {"no file", "partial", "whole"}, n \in 1..MaxArchive :
          CCreate(c, outcome, n)
    \/ \E c \in Calls, fails \in BOOLEAN : CStat(c, fails)
    \/ \E c \in Calls : CCheck(c)
    \/ \E c \in Calls : CAdd(c)
    \/ \E c \in Calls : RoundTripSource(c)
    \/ arch = "ok" /\ DStart
    \/ DVisit("none")
    \/ DWalkEnd
    \/ DFinish
SpecRoundTrip == InitRoundTrip /\ [][NextRoundTrip]_vars

\* SpaceAvailableForDecompression on an archive, then DecompressFile of that archive.
InitExtract ==
    /\ DecInit /\ NameIdleInit /\ sp = SpaceIdle /\ CompIdle /\ rootFiles = {}
    /\ diskUsed \in {0, MaxUsage}
    /\ maxDisk \in {0, 1, MaxQuota}
NextExtract ==
    \/ SpaceStart
    \/ SpaceVisit
    \/ SpaceWalkEnd
    \/ SpaceFinish
    \/ sp.pc = "done" /\ DStart
    \/ \E fault \in {"none", "Writefile", "Chmod", "Chtimes"} : DVisit(fault)
    \/ DWalkEnd
    \/ DFinish
SpecExtract == InitExtract /\ [][NextExtract]_vars

\* CompressFiles calls made one after the other.
InitCompress == CompInit /\ NameIdleInit /\ ArchiveIdle /\ sp = SpaceIdle /\ DecIdleInit /\ rootFiles = {}
NextCompress ==
    \/ \E c \in Calls, dirOk \in BOOLEAN, paths \in SeqsUpTo(PathKinds, MaxPaths) :
          (\A o \in Calls : call[o].pc = "idle") /\ CStart(c, dirOk, paths)
    \/ \E c \in Calls, k \in 1..MaxPaths : CValidate(c, k)
    \/ \E c \in Calls : CValidated(c)
    \/ \E c \in Calls, outcome \in {"no file", "partial", "whole"}, n \in 1..MaxArchive :
          CCreate(c, outcome, n)
    \/ \E c \in Calls, fails \in BOOLEAN : CStat(c, fails)
    \/ \E c \in Calls : CCheck(c)
    \/ \E c \in Calls : CAdd(c)
    \/ \E c \in Calls : CReturn(c)
    \/ Tick
SpecCompress == InitCompress /\ [][NextCompress]_vars

\* CompressFiles calls on the same filesystem that run together: every step of every
\* call is taken on its own, in any order.
InitConcurrent == InitCompress
NextConcurrent ==
    \/ \E c \in Calls, dirOk \in BOOLEAN, paths \in SeqsUpTo(PathKinds, MaxPaths) :
          CStart(c, dirOk, paths)
    \/ \E c \in Calls, k \in 1..MaxPaths : CValidate(c, k)
    \/ \E c \in Calls : CValidated(c)
    \/ \E c \in Calls, outcome \in {"no file", "partial", "whole"}, n \in 1..MaxArchive :
          CCreate(c, outcome, n)
    \/ \E c \in Calls, fails \in BOOLEAN : CStat(c, fails)
    \/ \E c \in Calls : CCheck(c)
    \/ \E c \in Calls : CAdd(c)
    \/ Tick
SpecConcurrent == InitConcurrent /\ [][NextConcurrent]_vars

(***************************************************************************)
(* Claims about ExtractNameFromArchive.                                    *)
(***************************************************************************)
\* What the specification calls a legacy-encoded name: read left to right, the name
\* is single bytes <= 0x7F and pairs of a lead byte and a continuation byte
\* ("legacy"); "dangling" when that reading ends on a lead byte with nothing after
\* it, "other" when it meets anything else.
RECURSIVE LegacyShape(_)
LegacyShape(s) ==
    IF s = <<>> THEN "legacy"
    ELSE IF s[1] <= AsciiMax THEN LegacyShape(Tail(s))
    ELSE IF s[1] < LeadMin \/ s[1] > LeadMax THEN "other"
    ELSE IF Len(s) = 1 THEN "dangling"
    ELSE IF s[2] >= ContMin /\ s[2] <= ContMax /\ s[2] # ContExcluded
         THEN LegacyShape(Tail(Tail(s)))
    ELSE "other"

\* C8: the scan never reads a byte at an index >= the name's length; a name that ends
\* on a dangling lead byte does not crash the resolver and is returned unmodified.
C8_BoundedLookahead ==
    /\ nm.pc # "panic"
    /\ (nm.pc = "returned" /\ file.sys \in KnownSys /\ LegacyShape(file.sysName) = "dangling")
          => nm.ret = file.sysName

\* C9: a name from known-format metadata is returned legacy-decoded if and only if the
\* whole name reads as singles and pairs, and returned unmodified otherwise: every
\* call returns, and returns that name.
C9_DecodedIffLegacy ==
    <>(/\ nm.pc = "returned"
       /\ file.sys \in KnownSys =>
             nm.ret = IF LegacyShape(file.sysName) = "legacy"
                      THEN GBKDecode(file.sysName) ELSE file.sysName)

(***************************************************************************)
(* Claims about SpaceAvailableForDecompression.                            *)
(***************************************************************************)
RECURSIVE SumSizes(_)
SumSizes(ms) == IF ms = <<>> THEN 0 ELSE ms[1].size + SumSizes(Tail(ms))

\* C3: with a maximum m > 0 and non-negative member sizes, the check succeeds if and
\* only if usage plus the sum of all member sizes is at most m, and fails with the
\* disk-space error otherwise.
C3_SucceedsIffFits ==
    (sp.pc = "done" /\ maxDisk > 0 /\ arch = "ok") =>
        IF diskUsed + SumSizes(members) <= maxDisk
        THEN sp.err = "nil"
        ELSE sp.err = "ErrCodeDiskSpace"

\* The total of the sizes of the first k members, and the first member at which that
\* total plus the usage exceeds the maximum (0: there is none).
RECURSIVE RunningTotal(_, _)
RunningTotal(ms, k) == IF k = 0 THEN 0 ELSE RunningTotal(ms, k - 1) + ms[k].size

FirstOver(ms, used, max) ==
    LET over == {k \in 1..Len(ms) : RunningTotal(ms, k) + used > max}
    IN  IF over = {} THEN 0 ELSE CHOOSE k \in over : \A j \in over : k <= j

\* C4: at the first member where the running total plus the usage exceeds the maximum
\* the walk stops with the disk-space error: no later member is enumerated.
C4_EarlyAbort ==
    (maxDisk > 0 /\ arch = "ok" /\ FirstOver(members, diskUsed, maxDisk) > 0) =>
        /\ sp.visited <= FirstOver(members, diskUsed, maxDisk)
        /\ sp.visited = FirstOver(members, diskUsed, maxDisk) =>
              sp.pc \in {"walked", "done"} /\ sp.err = "ErrCodeDiskSpace"
        /\ sp.pc = "done" =>
              sp.visited = FirstOver(members, diskUsed, maxDisk) /\ sp.err = "ErrCodeDiskSpace"

(***************************************************************************)
(* Claims about CompressFiles.                                             *)
(***************************************************************************)
Returned(c) == call[c].pc = "done"
Failed(c) == Returned(c) /\ call[c].ret # "ok"
SomePathInvalid(c) == \E k \in 1..Len(call[c].paths) : call[c].paths[k] # "ok"

C5_QuotaRollback ==
    \A c \in Calls :
        (Returned(c) /\ maxDisk > 0 /\ call[c].fsize > 0
                     /\ call[c].usage0 + call[c].fsize > maxDisk) =>
            /\ call[c].ret = "ErrCodeDiskSpace"
            /\ call[c].d \notin DOMAIN archives
            /\ diskUsed = call[c].usage0

\* C5 witness: a second call has created an archive over the quota and returned.
C5_Witness ==
    \E c \in Calls :
        /\ Returned(c) /\ call[c].ret = "ErrCodeDiskSpace" /\ call[c].removed
        /\ started = 2 /\ call[c].usage0 > 0

\* C6: a call changes the usage at most once: a successful call adds exactly the size
\* of its archive, once, after the archive exists and passed the quota check; a call
\* that returns an error, and a call still running its checks, leaves the usage as it was.
C6_UsageOnce ==
    \A c \in Calls :
        /\ call[c].adds <= 1
        /\ call[c].adds = 1 => (call[c].created /\ call[c].checked /\ call[c].ret = "ok")
        /\ (Returned(c) /\ call[c].ret = "ok") =>
              /\ call[c].adds = 1
              /\ diskUsed = call[c].usage0 + call[c].fsize
              /\ call[c].d \in DOMAIN archives /\ archives[call[c].d] = call[c].fsize
        /\ (Failed(c) \/ InFlight(c)) => (call[c].adds = 0 /\ diskUsed = call[c].usage0)

\* C6 witness: a second call has returned success on top of the first one's usage.
C6_Witness ==
    \E c \in Calls :
        /\ Returned(c) /\ call[c].ret = "ok" /\ started = 2
        /\ call[c].usage0 > 0 /\ diskUsed = call[c].usage0 + call[c].fsize

\* C7: a call that fails once its archive file was created (the creation failing
\* part-way, the stat or the quota check failing) has tried to delete the file before
\* it returns, and leaves no archive behind.
C7_FailureDeletesArchive ==
    \A c \in Calls :
        (Failed(c) /\ call[c].created) =>
            (call[c].removed /\ call[c].d \notin DOMAIN archives)

(***************************************************************************)
(* Claims about DecompressFile.                                            *)
(***************************************************************************)
\* The path of member k as the visitor computes it, and whether it is a non-directory
\* whose path resolves outside the root.
MemberPath(k) == JoinPath(dir, ExtractNameFromArchive(members[k].f).ret)
Escapes(k) ==
    /\ ~members[k].isDir
    /\ ExtractNameFromArchive(members[k].f).pc = "returned"
    /\ ~SafePath(MemberPath(k)).ok
OpsOn(k) == {j \in 1..Len(ops) : ops[j].member = k}
NoEffectOn(k) == \A j \in OpsOn(k) : ops[j].op = "Writefile" /\ ~ops[j].ok

\* C1: whenever a visited non-directory member's path resolves outside the
\* root, DecompressFile fails with the containment error and no write, chmod or
\* chtimes has taken effect for that member.
C1_EscapeAlwaysFails ==
    (arch = "ok" /\ dec.pc = "done") =>
        \A k \in 1..dec.visited :
            Escapes(k) => (dec.err = "ErrCodePathResolution" /\ NoEffectOn(k))

(***************************************************************************)
(* Claim about the round trip.                                             *)
(***************************************************************************)
\* The tree the round trip is to leave: every original file at its own path under
\* the root, with its content, mode and modification time, and nothing else.
ExpectedTree(fs) ==
    [t \in {RootPath \o Split(f.name, <<>>, <<>>) : f \in fs} |->
        LET f == CHOOSE g \in fs : RootPath \o Split(g.name, <<>>, <<>>) = t
        IN  [data |-> f.data, mode |-> f.mode, mtime |-> f.mtime]]

\* The content, mode and modification time of every file of a tree.
Recorded(files) ==
    [t \in DOMAIN files |->
        [data |-> files[t].data, mode |-> files[t].mode, mtime |-> files[t].mtime]]

\* C10: once CompressFiles has returned its archive, DecompressFile of that archive
\* into the empty root returns success and leaves exactly the original files, each at
\* its path with its content, mode and modification time.
C10_RoundTrip ==
    (arch = "ok" /\ dec.pc \in {"done", "panic", "spin"}) =>
        (dec.pc = "done" /\ dec.err = "nil" /\ Recorded(written) = ExpectedTree(rootFiles))

(***************************************************************************)
(* Claims about the members DecompressFile visits.                         *)
(***************************************************************************)
\* A visited member whose name was resolved and whose path fs.IsIgnored reports.
Ignored(k) ==
    /\ ~members[k].isDir
    /\ ExtractNameFromArchive(members[k].f).pc = "returned"
    /\ IsIgnored(MemberPath(k))
AllOpsOk == \A j \in 1..Len(ops) : ops[j].ok

\* C11: for every member whose path fs.IsIgnored reports, DecompressFile makes no
\* write, chmod or chtimes on that path and raises no error for it: the walk goes on
\* with the next member, and the call returns success when every step made for the
\* other members succeeded.
C11_IgnoredSkipped ==
    arch = "ok" =>
        /\ \A k \in 1..dec.visited :
              Ignored(k) =>
                  /\ OpsOn(k) = {}
                  /\ \A j \in 1..Len(ops) : ops[j].path # MemberPath(k)
                  /\ dec.visited = k =>
                        /\ dec.err = "nil"
                        /\ dec.pc \in {"walked", "done"} => k = Len(members)
        /\ (dec.pc = "done" /\ AllOpsOk /\ \E k \in 1..dec.visited : Ignored(k)) =>
              (dec.err = "nil" /\ dec.visited = Len(members))

\* C11 witness: DecompressFile returned success on an archive whose first member is
\* ignored and whose second member was written.
C11_Witness ==
    /\ arch = "ok" /\ dec.pc = "done" /\ dec.err = "nil"
    /\ Len(members) = 2 /\ Ignored(1) /\ ~Ignored(2)
    /\ OpsOn(2) # {} /\ written # <<>>

\* The error DecompressFile returns for a failed step.
StepErrors(op) ==
    CASE op = "Writefile" -> {"write failed", "ErrCodePathResolution"}
      [] op = "Chmod" -> {"chmod failed"}
      [] OTHER -> {"chtimes failed"}

\* C12: when the write, the chmod or the chtimes of a member fails the walk stops at
\* that member: the failed step is the last step made, no later member is visited,
\* and DecompressFile returns that failure, never success.
C12_FailureStopsWalk ==
    \A j \in 1..Len(ops) :
        ~ops[j].ok =>
            /\ j = Len(ops)
            /\ dec.visited = ops[j].member
            /\ dec.pc \in {"walked", "done"}
            /\ dec.err \in StepErrors(ops[j].op)

\* C12 witness: the chmod of the first of two members failed and DecompressFile has
\* returned that failure.
C12_Witness ==
    /\ dec.pc = "done" /\ dec.err = "chmod failed"
    /\ Len(members) = 2 /\ dec.visited = 1
    /\ ~members[2].isDir

\* The steps made for member k, in the order they were made.
RECURSIVE StepsOf(_, _)
StepsOf(k, j) ==
    IF j = 0 THEN <<>>
    ELSE IF ops[j].member = k THEN Append(StepsOf(k, j - 1), ops[j])
    ELSE StepsOf(k, j - 1)
StepNames == <<"Writefile", "Chmod", "Chtimes">>

\* C15: members are handled one at a time in archive order: the steps of an earlier
\* member all come before those of a later one; a directory has no step; the steps of
\* a member are the write, then the chmod only after the write succeeded, then the
\* chtimes only after the chmod succeeded; and a member whose chtimes succeeded has
\* its content and mode, and the archive's modification time as both its access and
\* its modification time.
C15_OneAtATimeInOrder ==
    /\ \A i, j \in 1..Len(ops) : i < j => ops[i].member <= ops[j].member
    /\ \A j \in 1..Len(ops) : ops[j].member \in 1..dec.visited
    /\ \A k \in 1..dec.visited :
          LET s == StepsOf(k, Len(ops))
          IN  /\ members[k].isDir => s = <<>>
              /\ Len(s) <= 3
              /\ \A i \in 1..Len(s) : s[i].op = StepNames[i] /\ (i < Len(s) => s[i].ok)
    /\ (ops # <<>> /\ ops[Len(ops)].op = "Chtimes" /\ ops[Len(ops)].ok) =>
          LET k == ops[Len(ops)].member
              q == SafePath(MemberPath(k)).path
          IN  /\ q \in DOMAIN written
              /\ written[q] = [data |-> members[k].data, mode |-> members[k].mode,
                               atime |-> members[k].mtime, mtime |-> members[k].mtime]

\* C15 witness: a directory and then two members were visited, all steps made and
\* succeeded, the first member's before the second's.
C15_Witness ==
    /\ dec.pc = "done" /\ dec.err = "nil" /\ AllOpsOk
    /\ \E k \in 1..Len(members) : members[k].isDir
    /\ Len(ops) >= 3
    /\ \E k \in 1..Len(members) : Len(StepsOf(k, Len(ops))) = 3

(***************************************************************************)
(* Claims about the error outcomes.                                        *)
(***************************************************************************)
\* C13: DecompressFile finds a missing archive before any member is enumerated and
\* returns the stat error with no member visited and no step made; an archive of no
\* known format gives ErrCodeUnknownArchive; a failed step of a member gives neither;
\* each of the two codes is returned for its own cause only.  In
\* SpaceAvailableForDecompression an archive of no known format gives
\* ErrCodeUnknownArchive, and the disk-space code is given for a readable archive only.
C13_DistinctOutcomes ==
    /\ arch = "missing" =>
          /\ dec.pc \in {"idle", "done"} /\ dec.visited = 0 /\ ops = <<>>
          /\ dec.pc = "done" => dec.err = "ENOENT"
    /\ dec.pc = "done" =>
          /\ arch = "unknown" => dec.err = "ErrCodeUnknownArchive"
          /\ dec.err = "ErrCodeUnknownArchive" => arch = "unknown"
          /\ dec.err = "ENOENT" => arch = "missing"
          /\ ~AllOpsOk => dec.err \notin {"nil", "ENOENT", "ErrCodeUnknownArchive"}
    /\ (sp.pc = "done" /\ maxDisk > 0) =>
          /\ arch = "unknown" => sp.err = "ErrCodeUnknownArchive"
          /\ sp.err = "ErrCodeUnknownArchive" => arch = "unknown"
          /\ sp.err = "ErrCodeDiskSpace" => arch = "ok"

\* C13 witness: a step of a member failed and DecompressFile has returned that
\* failure, after the space check of the same archive failed on the disk space.
C13_Witness ==
    /\ dec.pc = "done" /\ ~AllOpsOk /\ dec.err = "write failed"
    /\ sp.pc = "done" /\ sp.err = "ErrCodeDiskSpace"

\* C14: with a maximum <= 0 SpaceAvailableForDecompression returns nil at once,
\* whatever the archive's path is: it never resolves the path, never walks the
\* archive and visits no member.
C14_UnlimitedShortCircuit ==
    maxDisk <= 0 =>
        /\ sp.pc \in {"idle", "done"}
        /\ sp.err = "nil" /\ sp.visited = 0 /\ sp.size = 0

\* C14 witness: the check has returned for an archive path outside the root, with an
\* unlimited maximum.
C14_Witness ==
    /\ sp.pc = "done" /\ maxDisk <= 0 /\ arch = "outside"

(***************************************************************************)
(* Claims about the name source and the scan of ExtractNameFromArchive.    *)
(***************************************************************************)
OtherSys == {"other.Named", "other.Unnamed"}

\* C16: the name source: with no metadata the function returns the library-reported
\* name as given; with metadata of a known type the name it works on is that
\* metadata's Name field; with metadata of another type it returns the Name field
\* when there is one and the library-reported name otherwise.
C16_NameSource ==
    nm.pc # "call" =>
        /\ file.sys = "nil" => (nm.pc = "returned" /\ nm.ret = file.name)
        /\ file.sys \in KnownSys => nm.str = file.sysName
        /\ file.sys = "other.Named" => (nm.pc = "returned" /\ nm.ret = file.sysName)
        /\ file.sys = "other.Unnamed" => (nm.pc = "returned" /\ nm.ret = file.name)

\* C16 witness: the Name field of metadata of an unknown type was returned, and it is
\* not the library-reported name.
C16_Witness ==
    /\ nm.pc = "returned" /\ file.sys = "other.Named"
    /\ nm.ret = file.sysName /\ file.sysName # file.name

\* C17: a name resolved from metadata of an unknown type (its Name field, or the
\* library-reported name when it has none) is returned as the same bytes are when they
\* come from a tar header.
C17_HeuristicWhateverVariant ==
    (nm.pc = "returned" /\ file.sys \in OtherSys) =>
        LET b == IF file.sys = "other.Named" THEN file.sysName ELSE file.name
            r == ExtractNameFromArchive(TarFile(b))
        IN  r.pc = "returned" => nm.ret = r.ret

\* C18: the scan index grows on every iteration of the loop.
C18_IndexIncreases ==
    [][(nm.pc = "loop" /\ nm'.pc = "loop") => nm'.i > nm.i]_vars

(***************************************************************************)
(* Claims about CompressFiles calls that run together.  The first call     *)
(* made is call 1: its usage0 is the usage before any call.                *)
(***************************************************************************)
NoneInFlight == call[1].pc = "done" /\ \A c \in Calls : ~InFlight(c)
Succeeded == {c \in Calls : Returned(c) /\ call[c].ret = "ok"}

\* C19: with a maximum m > 0 and a usage <= m before the calls, the usage is <= m
\* whenever no call is in flight.
C19_UsageWithinMaximum ==
    (maxDisk > 0 /\ NoneInFlight /\ call[1].usage0 <= maxDisk) => diskUsed <= maxDisk

\* The total size of the files of `files` at the paths ds.
RECURSIVE TotalSize(_, _)
TotalSize(files, ds) ==
    IF ds = {} THEN 0
    ELSE LET d == CHOOSE x \in ds : TRUE
         IN  files[d] + TotalSize(files, ds \ {d})

\* C20: when all calls have returned, every call that returned success has its
\* archive file in the root, and the usage has grown by the total size of the archive
\* files those calls left.
C20_ArchivesAndUsageAgree ==
    NoneInFlight =>
        /\ \A c \in Succeeded : call[c].d \in DOMAIN archives
        /\ diskUsed - call[1].usage0 =
              TotalSize(archives, {call[c].d : c \in Succeeded} \cap DOMAIN archives)

====
